---- MODULE Spec2Model ----
(***************************************************************************)
(* react-native-android-sinch: the native module AndroidSinchModule       *)
(* (permission requests, the verification session, the engine callbacks)  *)
(* and the JS wrapper's listener registry, as one state machine.          *)
(*                                                                         *)
(* Every action is one handler of the source, run to completion.  The     *)
(* variables lastOp, emitted, engineCalls, prompted and invoked describe  *)
(* the handler that ran last (what it was, and the calls it made to the   *)
(* event emitter, the engine and the platform); every action rewrites     *)
(* them.  promises is the bridge's table of the Promise objects handed to *)
(* the native module, with every resolve/reject call made on each.        *)
(***************************************************************************)
EXTENDS Integers, Sequences, FiniteSets, TLC

\* ------------------------------------------------------------------ bounds
\* native calls the host makes in a run of the verification session
MaxVerifCalls == 3
\* native calls the host makes in a run of the permission requests
MaxPermCalls == 1
\* engine instances built by initVerification
MaxSessions == 2
\* listener callbacks the engine has raised that have not run yet
MaxSignals == 1
\* subscriptions created by addListener
MaxSubs == 3
\* distinct callback functions the host registers
NumCallbacks == 2
\* characters of a phoneNumber argument
MaxPhoneLen == 3
\* characters of an appSecret argument
MaxSecretLen == 1
\* native calls the host makes in a run of the wrapper's initVerification
MaxInitCalls == 1
\* native calls the host makes in a run of the calls that can be rejected
MaxCalls == 2
\* digits appended to a phoneNumber to make the long ones
MaxDigitRun == 15
\* records in the call log, and the timestamps they carry
MaxLogRows == 2
\* getLastCallNumber calls the host makes in a run of the call-log lookup
MaxLogCalls == 1

\* ------------------------------------------------------- program constants
PERMISSION_REQUEST_CODE_INTERNET == 1
PERMISSION_REQUEST_CODE_READ_CALL_LOG == 2
PERMISSION_REQUEST_CODE_CHANGE_NETWORK_STATE == 3
PERMISSION_REQUEST_CODE_ACCESS_NETWORK_STATE == 4
PERMISSION_REQUEST_CODE_READ_PHONE_STATE == 5
PERMISSION_REQUEST_CODE_ESSENTIAL == 100

GRANTED == "granted"
DENIED == "denied"
UNAVAILABLE == "unavailable"
BLOCKED == "blocked"

\* Manifest.permission.* used by the module
INTERNET == "INTERNET"
READ_CALL_LOG == "READ_CALL_LOG"
CHANGE_NETWORK_STATE == "CHANGE_NETWORK_STATE"
ACCESS_NETWORK_STATE == "ACCESS_NETWORK_STATE"
READ_PHONE_STATE == "READ_PHONE_STATE"

Permissions ==
  {INTERNET, READ_CALL_LOG, CHANGE_NETWORK_STATE, ACCESS_NETWORK_STATE, READ_PHONE_STATE}

RequestCodes ==
  { PERMISSION_REQUEST_CODE_INTERNET, PERMISSION_REQUEST_CODE_READ_CALL_LOG,
    PERMISSION_REQUEST_CODE_CHANGE_NETWORK_STATE,
    PERMISSION_REQUEST_CODE_ACCESS_NETWORK_STATE,
    PERMISSION_REQUEST_CODE_READ_PHONE_STATE, PERMISSION_REQUEST_CODE_ESSENTIAL }

\* the four permissions of requestEssentialPermissions, in the order checked
EssentialPermissions == <<READ_PHONE_STATE, ACCESS_NETWORK_STATE, READ_CALL_LOG, INTERNET>>

\* event names the native module emits
EventNames ==
  { "verificationSuccess", "verificationFailed", "verificationInitiated",
    "verificationNotInitialized", "verificationEvent", "verificationStopped" }

\* the keys of the wrapper's EventMap: the names addListener is typed to take
ListenerEvents ==
  { "verificationSuccess", "verificationFailed", "verificationInitiated",
    "verificationNotInitialized", "verificationEvent" }

\* methodType strings a caller may pass; "OTHER" stands for every unrecognized one
MethodTypes == {"FLASHCALL", "SMS", "OTHER"}

\* the characters a phoneNumber is made of here: the plus sign, the digit the
\* pattern excludes from the first place, another digit, a character that is no digit
PhoneChars == {"+", "0", "1", "x"}

Digits == {"0", "1", "2", "3", "4", "5", "6", "7", "8", "9"}

\* the strings over chars of at most n characters
SeqsUpTo(chars, n) == UNION {[1..k -> chars] : k \in 0..n}

PhoneNumbers == SeqsUpTo(PhoneChars, MaxPhoneLen)

\* appSecret: String? is null or a string
NullSecret == [isNull |-> TRUE, chars |-> <<>>]

Secret(chars) == [isNull |-> FALSE, chars |-> chars]

AppSecrets == {NullSecret} \cup {Secret(chars) : chars \in SeqsUpTo({"s"}, MaxSecretLen)}

\* null references
NoPromise == 0
NoSession == 0
NoSubscription == 0

VARIABLES
  \* AndroidSinchModule fields
  permissionPromises,   \* request code -> promise id or NoPromise
  verification,         \* engine instance id or NoSession
  verificationPromise,  \* promise id or NoPromise
  callbacks,            \* request code -> promise captured by the stored Callback
  \* the bridge
  promises,             \* promise id -> [kind, session, settles]
  callBudget,           \* how many native calls the host makes in all (never changes)
  hostNumbers,          \* the phoneNumber arguments the host uses (never changes)
  \* the JS wrapper's requestEssentialPermissions, after its await
  statuses,             \* the map the awaited native call returned
  overall,              \* the status the wrapper returned, "-" before it has
  \* the platform
  currentActivity,      \* reactContext.currentActivity was non-null when last read
  known,                \* permission -> Manifest.permission has the field
  granted,              \* permission -> checkSelfPermission is PERMISSION_GRANTED
  prompts,              \* requestPermissions calls not yet answered
  callLog,              \* the records of CallLog.Calls, in the order stored
  \* the verification engine
  engine,               \* instance id -> [phase, stopped]
  signals,              \* listener callbacks raised by the engine, not yet run
  \* the JS wrapper and DeviceEventEmitter
  activeListeners,      \* event name -> subscription id or NoSubscription
  subscriptions,        \* the emitter's live subscriptions, in registration order
  subsCreated,          \* subscriptions created so far
  removedAllAt,         \* subsCreated when removeAllListeners last returned
  \* the handler that ran last
  lastOp, emitted, engineCalls, prompted, invoked,
  answer                \* the platform answer the handler was given

moduleVars == <<permissionPromises, verification, verificationPromise, callbacks>>
platformVars == <<currentActivity, known, granted, prompts, callLog>>
engineVars == <<engine, signals>>
relayVars == <<activeListeners, subscriptions, subsCreated, removedAllAt>>
hostVars == <<callBudget, hostNumbers, statuses, overall>>
stepVars == <<lastOp, emitted, engineCalls, prompted, invoked, answer>>
vars == <<moduleVars, promises, hostVars, platformVars, engineVars, relayVars, stepVars>>

\* ------------------------------------------------------------ bridge values
NoMap == [p \in Permissions |-> "-"]

\* a string handed to resolve, or the code handed to reject
StrVal(s) == [tag |-> "str", str |-> s, map |-> NoMap]

\* a WritableNativeMap permission -> status ("-" where the key is absent)
MapVal(m) == [tag |-> "map", str |-> "", map |-> m]

NewPromise(kind) == [kind |-> kind, session |-> verification, settles |-> <<>>]

\* promise.resolve(v) / promise?.resolve(v): a call on a null reference does nothing
Resolve(tbl, p, v) ==
  IF p = NoPromise THEN tbl
  ELSE [tbl EXCEPT ![p].settles = Append(@, [how |-> "resolve", val |-> v])]

Reject(tbl, p, code) ==
  IF p = NoPromise THEN tbl
  ELSE [tbl EXCEPT ![p].settles = Append(@, [how |-> "reject", val |-> StrVal(code)])]

\* no cursor: the query was not made, returned null or threw
NoCursor == [isNull |-> TRUE, rows |-> <<>>, hasNumberColumn |-> FALSE]

Op(name, p, code, methodType) ==
  [op |-> name, promise |-> p, code |-> code, methodType |-> methodType, threw |-> FALSE,
   phoneNumber |-> <<>>, appSecret |-> NullSecret, cursor |-> NoCursor]

\* no platform answer was handled by the step
NoAnswer == [permissions |-> <<>>, accepted |-> {}, rationale |-> {}]

\* ------------------------------------------------------------- event relay
SubsOf(ev) == SelectSeq(subscriptions, LAMBDA s : s.event = ev)

RECURSIVE Deliver(_)
\* DeviceEventEmitter.emit for each event of evs in turn: every live subscription
\* of that name is invoked, in registration order
Deliver(evs) ==
  IF evs = <<>> THEN <<>>
  ELSE SubsOf(Head(evs)) \o Deliver(Tail(evs))

\* sendEvent(eventName, eventData), for the events one handler sends in order
SendEvents(evs) ==
  /\ emitted' = evs
  /\ invoked' = Deliver(evs)

\* ------------------------------------------------- verification: entry points
\* appSecret.isNullOrEmpty()
IsNullOrEmpty(appSecret) == appSecret.isNull \/ Len(appSecret.chars) = 0

\* the choice of credential with only null taken for "no secret"
AuthorizationMethodNullOnly(appSecret) ==
  IF appSecret.isNull THEN "AppKeyAuthorizationMethod"
  ELSE "BasicAuthorizationMethod"

\* the constructor initVerification calls for its authorizationMethod
AuthorizationMethod(appSecret) ==
  IF IsNullOrEmpty(appSecret) THEN "AppKeyAuthorizationMethod"
  ELSE "BasicAuthorizationMethod"

\* InitVerification with the handle it replaces rejected as cancelled
InitVerificationCancelsOld(phoneNumber, appSecret) ==
  /\ Len(promises) < callBudget
  /\ Len(engine) < MaxSessions
  /\ LET promise == Len(promises) + 1
         inst == Len(engine) + 1
     IN /\ promises' = Reject(Append(promises, NewPromise("initVerification")),
                              verificationPromise, "CANCELLED")
        /\ verificationPromise' = promise
        /\ engine' = Append(engine, [phase |-> "initiating", stopped |-> FALSE])
        /\ verification' = inst
        /\ engineCalls' = << [call |-> AuthorizationMethod(appSecret), inst |-> inst],
                             [call |-> "initiate", inst |-> inst] >>
        /\ lastOp' = [Op("initVerification", promise, 0, "")
                        EXCEPT !.phoneNumber = phoneNumber, !.appSecret = appSecret]
  /\ SendEvents(<<>>)
  /\ prompted' = <<>>
  /\ answer' = NoAnswer
  /\ UNCHANGED <<permissionPromises, callbacks, platformVars, signals, relayVars, hostVars>>

InitVerification(phoneNumber, appSecret) ==
  /\ Len(promises) < callBudget
  /\ Len(engine) < MaxSessions
  /\ LET promise == Len(promises) + 1
         inst == Len(engine) + 1
     IN /\ promises' = Append(promises, NewPromise("initVerification"))
        /\ verificationPromise' = promise
        /\ engine' = Append(engine, [phase |-> "initiating", stopped |-> FALSE])
        /\ verification' = inst
        /\ engineCalls' = << [call |-> AuthorizationMethod(appSecret), inst |-> inst],
                             [call |-> "initiate", inst |-> inst] >>
        /\ lastOp' = [Op("initVerification", promise, 0, "")
                        EXCEPT !.phoneNumber = phoneNumber, !.appSecret = appSecret]
  /\ SendEvents(<<>>)
  /\ prompted' = <<>>
  /\ answer' = NoAnswer
  /\ UNCHANGED <<permissionPromises, callbacks, platformVars, signals, relayVars, hostVars>>

\* StopVerification with the session field left set (verification = null forgotten)
StopVerificationKeepsSession ==
  /\ Len(promises) < callBudget
  /\ LET promise == Len(promises) + 1
         tbl == Append(promises, NewPromise("stopVerification"))
     IN /\ lastOp' = Op("stopVerification", promise, 0, "")
        /\ IF verification # NoSession
           THEN /\ engine' = [engine EXCEPT ![verification].stopped = TRUE]
                /\ engineCalls' = <<[call |-> "stop", inst |-> verification]>>
                /\ promises' =
                     Resolve(Resolve(tbl, promise, StrVal("Verification stopped")),
                             verificationPromise,
                             StrVal("Verification stopped due to explicit stop call"))
                /\ verificationPromise' = NoPromise
                /\ SendEvents(IF verificationPromise # NoPromise
                              THEN <<"verificationStopped">> ELSE <<>>)
           ELSE /\ promises' = Resolve(tbl, promise, StrVal("No active verification to stop"))
                /\ engineCalls' = <<>>
                /\ SendEvents(<<>>)
                /\ UNCHANGED <<engine, verificationPromise>>
  /\ prompted' = <<>>
  /\ answer' = NoAnswer
  /\ UNCHANGED <<permissionPromises, callbacks, verification, platformVars, signals,
                 relayVars, hostVars>>

StopVerification ==
  /\ Len(promises) < callBudget
  /\ LET promise == Len(promises) + 1
         tbl == Append(promises, NewPromise("stopVerification"))
     IN /\ lastOp' = Op("stopVerification", promise, 0, "")
        /\ IF verification # NoSession
           THEN /\ engine' = [engine EXCEPT ![verification].stopped = TRUE]
                /\ engineCalls' = <<[call |-> "stop", inst |-> verification]>>
                /\ verification' = NoSession
                /\ IF verificationPromise # NoPromise
                   THEN /\ promises' =
                             Resolve(Resolve(tbl, promise, StrVal("Verification stopped")),
                                     verificationPromise,
                                     StrVal("Verification stopped due to explicit stop call"))
                        /\ verificationPromise' = NoPromise
                        /\ SendEvents(<<"verificationStopped">>)
                   ELSE /\ promises' = Resolve(tbl, promise, StrVal("Verification stopped"))
                        /\ UNCHANGED verificationPromise
                        /\ SendEvents(<<>>)
           ELSE /\ promises' = Resolve(tbl, promise, StrVal("No active verification to stop"))
                /\ engineCalls' = <<>>
                /\ SendEvents(<<>>)
                /\ UNCHANGED <<engine, verification, verificationPromise>>
  /\ prompted' = <<>>
  /\ answer' = NoAnswer
  /\ UNCHANGED <<permissionPromises, callbacks, platformVars, signals, relayVars, hostVars>>

\* VerifyCode with the handle stored before the session is looked at
VerifyCodeStoresFirst(methodType) ==
  /\ Len(promises) < callBudget
  /\ LET promise == Len(promises) + 1
         tbl == Append(promises, NewPromise("verifyCode"))
     IN /\ lastOp' = Op("verifyCode", promise, 0, methodType)
        /\ IF methodType \notin {"FLASHCALL", "SMS"}
           THEN /\ promises' = Reject(tbl, promise, "INVALID_METHOD_TYPE")
                /\ engineCalls' = <<>>
                /\ SendEvents(<<>>)
                /\ UNCHANGED verificationPromise
           ELSE /\ verificationPromise' = promise
                /\ IF verification # NoSession
                   THEN /\ promises' = tbl
                        /\ engineCalls' = <<[call |-> "verify", inst |-> verification]>>
                        /\ SendEvents(<<>>)
                   ELSE /\ promises' = Reject(tbl, promise, "NO_VERIFICATION")
                        /\ engineCalls' = <<>>
                        /\ SendEvents(<<"verificationNotInitialized">>)
  /\ prompted' = <<>>
  /\ answer' = NoAnswer
  /\ UNCHANGED <<permissionPromises, callbacks, verification, platformVars, engineVars,
                 relayVars, hostVars>>

\* VerifyCode with the session looked at before the methodType
VerifyCodeSessionFirst(methodType) ==
  /\ Len(promises) < callBudget
  /\ LET promise == Len(promises) + 1
         tbl == Append(promises, NewPromise("verifyCode"))
     IN /\ lastOp' = Op("verifyCode", promise, 0, methodType)
        /\ IF verification = NoSession
           THEN /\ promises' = Reject(tbl, promise, "NO_VERIFICATION")
                /\ engineCalls' = <<>>
                /\ SendEvents(<<"verificationNotInitialized">>)
                /\ UNCHANGED verificationPromise
           ELSE IF methodType \notin {"FLASHCALL", "SMS"}
           THEN /\ promises' = Reject(tbl, promise, "INVALID_METHOD_TYPE")
                /\ engineCalls' = <<>>
                /\ SendEvents(<<>>)
                /\ UNCHANGED verificationPromise
           ELSE /\ promises' = tbl
                /\ verificationPromise' = promise
                /\ engineCalls' = <<[call |-> "verify", inst |-> verification]>>
                /\ SendEvents(<<>>)
  /\ prompted' = <<>>
  /\ answer' = NoAnswer
  /\ UNCHANGED <<permissionPromises, callbacks, verification, platformVars, engineVars,
                 relayVars, hostVars>>

VerifyCode(methodType) ==
  /\ Len(promises) < callBudget
  /\ LET promise == Len(promises) + 1
         tbl == Append(promises, NewPromise("verifyCode"))
     IN /\ lastOp' = Op("verifyCode", promise, 0, methodType)
        /\ IF methodType \notin {"FLASHCALL", "SMS"}
           THEN /\ promises' = Reject(tbl, promise, "INVALID_METHOD_TYPE")
                /\ engineCalls' = <<>>
                /\ SendEvents(<<>>)
                /\ UNCHANGED verificationPromise
           ELSE IF verification # NoSession
           THEN /\ promises' = tbl
                /\ verificationPromise' = promise
                /\ engineCalls' = <<[call |-> "verify", inst |-> verification]>>
                /\ SendEvents(<<>>)
           ELSE /\ promises' = Reject(tbl, promise, "NO_VERIFICATION")
                /\ engineCalls' = <<>>
                /\ SendEvents(<<"verificationNotInitialized">>)
                /\ UNCHANGED verificationPromise
  /\ prompted' = <<>>
  /\ answer' = NoAnswer
  /\ UNCHANGED <<permissionPromises, callbacks, verification, platformVars, engineVars,
                 relayVars, hostVars>>

\* the caller numbers a record may carry
Numbers == {"n1", "n2"}

\* a record of CallLog.Calls: the columns DATE and NUMBER
CallRecords == [date : 1..MaxLogRows, number : Numbers]

CallLogs == SeqsUpTo(CallRecords, MaxLogRows)

\* the orders in which the rows of seq can be arranged
Perms(seq) ==
  { [i \in 1..Len(seq) |-> seq[f[i]]] :
      f \in {g \in [1..Len(seq) -> 1..Len(seq)] :
                \A i, j \in 1..Len(seq) : i # j => g[i] # g[j]} }

\* the query sorted by DATE ascending
QueryDateAsc(log) ==
  {rows \in Perms(log) :
     \A i, j \in 1..Len(rows) : i < j => rows[i].date <= rows[j].date}

\* the rows the query sorted by CallLog.Calls.DATE + " DESC" may deliver: the records
\* with later dates first, records of one date in any order
QueryDateDesc(log) ==
  {rows \in Perms(log) :
     \A i, j \in 1..Len(rows) : i < j => rows[i].date >= rows[j].date}

\* what contentResolver.query may hand back when it does not throw: null, or a cursor
\* over the sorted rows, with or without the NUMBER column
Cursors ==
  {NoCursor} \cup
  { [isNull |-> FALSE, rows |-> rows, hasNumberColumn |-> hasNumberColumn] :
      rows \in QueryDateDesc(callLog), hasNumberColumn \in BOOLEAN }

\* the query throws SecurityException unless READ_CALL_LOG is granted
GetLastCallNumber(cursor) ==
  /\ Len(promises) < callBudget
  /\ LET promise == Len(promises) + 1
         tbl == Append(promises, NewPromise("getLastCallNumber"))
     IN /\ lastOp' = [Op("getLastCallNumber", promise, 0, "")
                        EXCEPT !.cursor = IF granted[READ_CALL_LOG] THEN cursor ELSE NoCursor]
        /\ promises' =
             IF ~granted[READ_CALL_LOG] THEN Reject(tbl, promise, "PERMISSION_DENIED")
             ELSE IF ~cursor.isNull /\ cursor.rows # <<>>
             THEN IF cursor.hasNumberColumn
                  THEN Resolve(tbl, promise, StrVal(cursor.rows[1].number))
                  ELSE Reject(tbl, promise, "NO_CALL_NUMBER")
             ELSE Reject(tbl, promise, "NO_CALL_LOG")
  /\ engineCalls' = <<>>
  /\ prompted' = <<>>
  /\ answer' = NoAnswer
  /\ SendEvents(<<>>)
  /\ UNCHANGED <<moduleVars, platformVars, engineVars, relayVars, hostVars>>

\* ------------------------------------------------------ the verification engine
\* The engine is the Sinch SDK.  An instance built by initVerification raises its
\* listener callbacks on its own: onInitiated or onInitializationFailed once after
\* initiate(), onVerified or onVerificationFailed once it has been initiated (the
\* flash call is intercepted by the SDK or a code was reported), onVerificationEvent
\* at any time.  An instance raises nothing after stop(); an instance the module no
\* longer references (a second initVerification overwrote the field) was never
\* stopped and goes on.  A raised callback runs later, in the order raised.
PhaseAfter(phase, sig) ==
  CASE sig = "onInitiated" -> "active"
    [] sig = "onInitializationFailed" -> "initFailed"
    [] sig = "onVerified" -> "verified"
    [] sig = "onVerificationFailed" -> "failed"
    [] OTHER -> phase

MayRaise(phase, sig) ==
  CASE sig \in {"onInitiated", "onInitializationFailed"} -> phase = "initiating"
    [] sig \in {"onVerified", "onVerificationFailed"} -> phase = "active"
    [] OTHER -> TRUE

Signals ==
  { "onInitiated", "onInitializationFailed", "onVerified", "onVerificationFailed",
    "onVerificationEvent" }

EngineRaise(inst, sig) ==
  /\ Len(signals) < MaxSignals
  /\ ~engine[inst].stopped
  /\ MayRaise(engine[inst].phase, sig)
  /\ engine' = [engine EXCEPT ![inst].phase = PhaseAfter(@, sig)]
  /\ signals' = Append(signals, [inst |-> inst, sig |-> sig])
  /\ lastOp' = Op("engine", NoPromise, 0, "")
  /\ engineCalls' = <<>>
  /\ prompted' = <<>>
  /\ answer' = NoAnswer
  /\ SendEvents(<<>>)
  /\ UNCHANGED <<moduleVars, promises, platformVars, relayVars, hostVars>>

\* --------------------------------------------- verification: engine callbacks
EngineCallback(sig) ==
  /\ signals # <<>>
  /\ Head(signals).sig = sig
  /\ signals' = Tail(signals)
  /\ lastOp' = Op(sig, verificationPromise, 0, "")
  /\ engineCalls' = <<>>
  /\ prompted' = <<>>
  /\ answer' = NoAnswer
  /\ UNCHANGED <<moduleVars, engine, platformVars, relayVars, hostVars>>

OnInitializationFailed ==
  /\ EngineCallback("onInitializationFailed")
  /\ promises' = Reject(promises, verificationPromise, "INITIALIZATION_FAILED")
  /\ SendEvents(<<"verificationFailed">>)

OnInitiated ==
  /\ EngineCallback("onInitiated")
  /\ promises' = Resolve(promises, verificationPromise, StrVal("Verification initiated"))
  /\ SendEvents(<<"verificationInitiated">>)

\* onVerified without its null test, written as onInitiated is
OnVerifiedUnguarded ==
  /\ EngineCallback("onVerified")
  /\ promises' = Resolve(promises, verificationPromise, StrVal("Successfully verified"))
  /\ SendEvents(<<"verificationSuccess">>)

OnVerified ==
  /\ EngineCallback("onVerified")
  /\ IF verificationPromise # NoPromise
     THEN /\ promises' = Resolve(promises, verificationPromise, StrVal("Successfully verified"))
          /\ SendEvents(<<"verificationSuccess">>)
     ELSE /\ UNCHANGED promises
          /\ SendEvents(<<>>)

OnVerificationFailed ==
  /\ EngineCallback("onVerificationFailed")
  /\ IF verificationPromise # NoPromise
     THEN /\ promises' = Reject(promises, verificationPromise, "VERIFICATION_FAILED")
          /\ SendEvents(<<"verificationFailed">>)
     ELSE /\ UNCHANGED promises
          /\ SendEvents(<<>>)

\* onVerificationEvent forwarding the engine's event twice
OnVerificationEventTwice ==
  /\ EngineCallback("onVerificationEvent")
  /\ UNCHANGED promises
  /\ SendEvents(<<"verificationEvent", "verificationEvent">>)

OnVerificationEvent ==
  /\ EngineCallback("onVerificationEvent")
  /\ UNCHANGED promises
  /\ SendEvents(<<"verificationEvent">>)

\* ------------------------------------------------- permissions: entry points
\* isPermissionUnavailable with the lookup never failing
IsPermissionUnavailableNever(permission) == FALSE

\* Manifest.permission::class.java.getField(fieldName) throws NoSuchFieldException
IsPermissionUnavailable(permission) == ~known[permission]

\* the grant check with its comparison never true
CheckSelfPermissionNever(permission) == FALSE

\* ContextCompat.checkSelfPermission(activity, permission) == PERMISSION_GRANTED
CheckSelfPermission(permission) == granted[permission]

\* requestPermission with the promise stored before the activity is looked for
RequestPermissionStoresFirst(name, permission, requestCode) ==
  /\ Len(promises) < callBudget
  /\ currentActivity' \in BOOLEAN
  /\ LET promise == Len(promises) + 1
         tbl == Append(promises, NewPromise(name))
         prompt == [code |-> requestCode, permissions |-> <<permission>>]
     IN /\ lastOp' = Op(name, promise, requestCode, "")
        /\ IF ~currentActivity'
           THEN /\ permissionPromises' = [permissionPromises EXCEPT ![requestCode] = promise]
                /\ promises' = Reject(tbl, promise, "E_ACTIVITY_DOES_NOT_EXIST")
                /\ prompted' = <<>>
                /\ UNCHANGED <<callbacks, prompts>>
           ELSE IF IsPermissionUnavailable(permission)
           THEN /\ permissionPromises' = [permissionPromises EXCEPT ![requestCode] = promise]
                /\ promises' = Resolve(tbl, promise, StrVal(UNAVAILABLE))
                /\ prompted' = <<>>
                /\ UNCHANGED <<callbacks, prompts>>
           ELSE IF CheckSelfPermission(permission)
           THEN /\ permissionPromises' = [permissionPromises EXCEPT ![requestCode] = promise]
                /\ promises' = Resolve(tbl, promise, StrVal(GRANTED))
                /\ prompted' = <<>>
                /\ UNCHANGED <<callbacks, prompts>>
           ELSE /\ permissionPromises' = [permissionPromises EXCEPT ![requestCode] = promise]
                /\ promises' = tbl
                /\ callbacks' = [callbacks EXCEPT ![requestCode] = promise]
                /\ prompts' = Append(prompts, prompt)
                /\ prompted' = <<prompt>>
  /\ engineCalls' = <<>>
  /\ answer' = NoAnswer
  /\ SendEvents(<<>>)
  /\ UNCHANGED <<verification, verificationPromise, known, granted, callLog, engineVars,
                 relayVars, hostVars>>

\* RequestPermission without the checkSelfPermission test: a granted permission is
\* asked for again
RequestPermissionAsksGranted(name, permission, requestCode) ==
  /\ Len(promises) < callBudget
  /\ currentActivity' \in BOOLEAN
  /\ LET promise == Len(promises) + 1
         tbl == Append(promises, NewPromise(name))
         prompt == [code |-> requestCode, permissions |-> <<permission>>]
     IN /\ lastOp' = Op(name, promise, requestCode, "")
        /\ IF ~currentActivity'
           THEN /\ promises' = Reject(tbl, promise, "E_ACTIVITY_DOES_NOT_EXIST")
                /\ prompted' = <<>>
                /\ UNCHANGED <<permissionPromises, callbacks, prompts>>
           ELSE IF IsPermissionUnavailable(permission)
           THEN /\ permissionPromises' = [permissionPromises EXCEPT ![requestCode] = promise]
                /\ promises' = Resolve(tbl, promise, StrVal(UNAVAILABLE))
                /\ prompted' = <<>>
                /\ UNCHANGED <<callbacks, prompts>>
           ELSE /\ permissionPromises' = [permissionPromises EXCEPT ![requestCode] = promise]
                /\ promises' = tbl
                /\ callbacks' = [callbacks EXCEPT ![requestCode] = promise]
                /\ prompts' = Append(prompts, prompt)
                /\ prompted' = <<prompt>>
  /\ engineCalls' = <<>>
  /\ answer' = NoAnswer
  /\ SendEvents(<<>>)
  /\ UNCHANGED <<verification, verificationPromise, known, granted, callLog, engineVars,
                 relayVars, hostVars>>

RequestPermission(name, permission, requestCode) ==
  /\ Len(promises) < callBudget
  /\ currentActivity' \in BOOLEAN
  /\ LET promise == Len(promises) + 1
         tbl == Append(promises, NewPromise(name))
         prompt == [code |-> requestCode, permissions |-> <<permission>>]
     IN /\ lastOp' = Op(name, promise, requestCode, "")
        /\ IF ~currentActivity'
           THEN /\ promises' = Reject(tbl, promise, "E_ACTIVITY_DOES_NOT_EXIST")
                /\ prompted' = <<>>
                /\ UNCHANGED <<permissionPromises, callbacks, prompts>>
           ELSE IF IsPermissionUnavailable(permission)
           THEN /\ permissionPromises' = [permissionPromises EXCEPT ![requestCode] = promise]
                /\ promises' = Resolve(tbl, promise, StrVal(UNAVAILABLE))
                /\ prompted' = <<>>
                /\ UNCHANGED <<callbacks, prompts>>
           ELSE IF CheckSelfPermission(permission)
           THEN /\ permissionPromises' = [permissionPromises EXCEPT ![requestCode] = promise]
                /\ promises' = Resolve(tbl, promise, StrVal(GRANTED))
                /\ prompted' = <<>>
                /\ UNCHANGED <<callbacks, prompts>>
           ELSE /\ permissionPromises' = [permissionPromises EXCEPT ![requestCode] = promise]
                /\ promises' = tbl
                /\ callbacks' = [callbacks EXCEPT ![requestCode] = promise]
                /\ prompts' = Append(prompts, prompt)
                /\ prompted' = <<prompt>>
  /\ engineCalls' = <<>>
  /\ answer' = NoAnswer
  /\ SendEvents(<<>>)
  /\ UNCHANGED <<verification, verificationPromise, known, granted, callLog, engineVars,
                 relayVars, hostVars>>

RequestInternetPermission ==
  RequestPermission("requestInternetPermission", INTERNET, PERMISSION_REQUEST_CODE_INTERNET)

RequestReadCallLogPermission ==
  RequestPermission("requestReadCallLogPermission", READ_CALL_LOG,
                    PERMISSION_REQUEST_CODE_READ_CALL_LOG)

RequestChangeNetworkStatePermission ==
  RequestPermission("requestChangeNetworkStatePermission", CHANGE_NETWORK_STATE,
                    PERMISSION_REQUEST_CODE_CHANGE_NETWORK_STATE)

RequestAccessNetworkStatePermission ==
  RequestPermission("requestAccessNetworkStatePermission", ACCESS_NETWORK_STATE,
                    PERMISSION_REQUEST_CODE_ACCESS_NETWORK_STATE)

RequestReadPhoneStatePermission ==
  RequestPermission("requestReadPhoneStatePermission", READ_PHONE_STATE,
                    PERMISSION_REQUEST_CODE_READ_PHONE_STATE)

\* the five single-permission entry points, and the permission and code of each
SinglePermissionOps ==
  { "requestInternetPermission", "requestReadCallLogPermission",
    "requestChangeNetworkStatePermission", "requestAccessNetworkStatePermission",
    "requestReadPhoneStatePermission" }

PermissionOfCode(requestCode) ==
  CASE requestCode = PERMISSION_REQUEST_CODE_INTERNET -> INTERNET
    [] requestCode = PERMISSION_REQUEST_CODE_READ_CALL_LOG -> READ_CALL_LOG
    [] requestCode = PERMISSION_REQUEST_CODE_CHANGE_NETWORK_STATE -> CHANGE_NETWORK_STATE
    [] requestCode = PERMISSION_REQUEST_CODE_ACCESS_NETWORK_STATE -> ACCESS_NETWORK_STATE
    [] requestCode = PERMISSION_REQUEST_CODE_READ_PHONE_STATE -> READ_PHONE_STATE

\* checkAndAddPermission without the checkSelfPermission branch
CheckAndAddPermissionNoGrantCheck(permission) ==
  IF IsPermissionUnavailable(permission) THEN UNAVAILABLE
  ELSE DENIED

\* the status checkAndAddPermission stores for one permission
CheckAndAddPermission(permission) ==
  IF IsPermissionUnavailable(permission) THEN UNAVAILABLE
  ELSE IF CheckSelfPermission(permission) THEN GRANTED
  ELSE DENIED

InSeq(x, seq) == \E i \in 1..Len(seq) : seq[i] = x

RequestEssentialPermissions ==
  /\ Len(promises) < callBudget
  /\ currentActivity' \in BOOLEAN
  /\ LET promise == Len(promises) + 1
         tbl == Append(promises, NewPromise("requestEssentialPermissions"))
         permissionsToRequest ==
           SelectSeq(EssentialPermissions, LAMBDA p : CheckAndAddPermission(p) = DENIED)
         permissionStatuses ==
           [p \in Permissions |->
              IF InSeq(p, EssentialPermissions) THEN CheckAndAddPermission(p) ELSE "-"]
         prompt == [code |-> PERMISSION_REQUEST_CODE_ESSENTIAL,
                    permissions |-> permissionsToRequest]
     IN /\ lastOp' = Op("requestEssentialPermissions", promise,
                        PERMISSION_REQUEST_CODE_ESSENTIAL, "")
        /\ IF ~currentActivity'
           THEN /\ promises' = Reject(tbl, promise, "E_ACTIVITY_DOES_NOT_EXIST")
                /\ prompted' = <<>>
                /\ UNCHANGED <<permissionPromises, prompts>>
           ELSE IF permissionsToRequest # <<>>
           THEN /\ permissionPromises' =
                     [permissionPromises EXCEPT ![PERMISSION_REQUEST_CODE_ESSENTIAL] = promise]
                /\ promises' = tbl
                /\ prompts' = Append(prompts, prompt)
                /\ prompted' = <<prompt>>
           ELSE /\ promises' = Resolve(tbl, promise, MapVal(permissionStatuses))
                /\ prompted' = <<>>
                /\ UNCHANGED <<permissionPromises, prompts>>
  /\ engineCalls' = <<>>
  /\ answer' = NoAnswer
  /\ SendEvents(<<>>)
  /\ UNCHANGED <<verification, verificationPromise, callbacks, known, granted, callLog, engineVars,
                 relayVars, hostVars>>

\* ------------------------------------------------ permissions: the platform
RemoveAt(seq, i) == SubSeq(seq, 1, i - 1) \o SubSeq(seq, i + 1, Len(seq))

SeqRange(seq) == {seq[i] : i \in 1..Len(seq)}

\* AnsweredStatus without the shouldShowRequestPermissionRationale query: a declined
\* permission keeps the DENIED that checkAndAddPermission wrote when it was asked for
AnsweredStatusStored(permission, accepted, rationale) ==
  IF permission \in accepted THEN GRANTED
  ELSE DENIED

\* the status onRequestPermissionsResult stores for one answered permission
AnsweredStatus(permission, accepted, rationale) ==
  IF permission \in accepted THEN GRANTED
  ELSE IF permission \in rationale THEN DENIED
  ELSE BLOCKED

\* OnRequestPermissionsResult with permissionPromises.clear() for remove(requestCode)
OnRequestPermissionsResultClearsAll(i, permissions, accepted, rationale) ==
  /\ i \in 1..Len(prompts)
  /\ currentActivity' \in BOOLEAN
  /\ permissions \in {prompts[i].permissions, <<>>}
  /\ accepted \subseteq SeqRange(permissions)
  /\ \A p \in SeqRange(permissions) : granted[p] => p \in accepted
  /\ rationale \subseteq (SeqRange(permissions) \ accepted)
  /\ LET requestCode == prompts[i].code
         promise == permissionPromises[requestCode]
         threw == ~currentActivity' /\ SeqRange(permissions) # accepted
         permissionStatuses ==
           [p \in Permissions |->
              IF p \in SeqRange(permissions) THEN AnsweredStatus(p, accepted, rationale)
              ELSE "-"]
     IN /\ prompts' = RemoveAt(prompts, i)
        /\ granted' = [p \in Permissions |-> granted[p] \/ p \in accepted]
        /\ permissionPromises' = [c \in RequestCodes |-> NoPromise]
        /\ promises' = IF threw THEN promises
                       ELSE Resolve(promises, promise, MapVal(permissionStatuses))
        /\ lastOp' = [Op("onRequestPermissionsResult", promise, requestCode, "")
                        EXCEPT !.threw = threw]
        /\ answer' = [permissions |-> permissions, accepted |-> accepted,
                      rationale |-> rationale]
  /\ engineCalls' = <<>>
  /\ prompted' = <<>>
  /\ SendEvents(<<>>)
  /\ UNCHANGED <<verification, verificationPromise, callbacks, known, callLog, engineVars,
                 relayVars, hostVars>>

\* The platform answers the prompt at position i.  permissions is the prompt's
\* array, or empty when the request was cancelled; accepted are the permissions
\* reported PERMISSION_GRANTED (one granted in the meantime is always among them);
\* rationale are those for which shouldShowRequestPermissionRationale answers true
\* now.  getPermissionAwareActivity throws when a declined permission is met and
\* no activity is attached: the handler ends there, after the entry was removed.
OnRequestPermissionsResult(i, permissions, accepted, rationale) ==
  /\ i \in 1..Len(prompts)
  /\ currentActivity' \in BOOLEAN
  /\ permissions \in {prompts[i].permissions, <<>>}
  /\ accepted \subseteq SeqRange(permissions)
  /\ \A p \in SeqRange(permissions) : granted[p] => p \in accepted
  /\ rationale \subseteq (SeqRange(permissions) \ accepted)
  /\ LET requestCode == prompts[i].code
         promise == permissionPromises[requestCode]
         threw == ~currentActivity' /\ SeqRange(permissions) # accepted
         permissionStatuses ==
           [p \in Permissions |->
              IF p \in SeqRange(permissions) THEN AnsweredStatus(p, accepted, rationale)
              ELSE "-"]
     IN /\ prompts' = RemoveAt(prompts, i)
        /\ granted' = [p \in Permissions |-> granted[p] \/ p \in accepted]
        /\ permissionPromises' = [permissionPromises EXCEPT ![requestCode] = NoPromise]
        /\ promises' = IF threw THEN promises
                       ELSE Resolve(promises, promise, MapVal(permissionStatuses))
        /\ lastOp' = [Op("onRequestPermissionsResult", promise, requestCode, "")
                        EXCEPT !.threw = threw]
        /\ answer' = [permissions |-> permissions, accepted |-> accepted,
                      rationale |-> rationale]
  /\ engineCalls' = <<>>
  /\ prompted' = <<>>
  /\ SendEvents(<<>>)
  /\ UNCHANGED <<verification, verificationPromise, callbacks, known, callLog, engineVars,
                 relayVars, hostVars>>

\* ------------------------------------------------ JS wrapper: the listeners
\* The wrapper runs on Android with the native module present (the other branch of
\* each function only warns).  DeviceEventEmitter.addListener returns a new
\* subscription; subscription.remove() takes that one subscription out.
WithoutSubs(ids) == SelectSeq(subscriptions, LAMBDA s : s.id \notin ids)

RelayStep(name) ==
  /\ lastOp' = Op(name, NoPromise, 0, "")
  /\ engineCalls' = <<>>
  /\ prompted' = <<>>
  /\ answer' = NoAnswer
  /\ SendEvents(<<>>)
  /\ UNCHANGED <<moduleVars, promises, platformVars, engineVars, hostVars>>

AddListener(event, callback) ==
  /\ subsCreated < MaxSubs
  /\ LET subscription == [id |-> subsCreated + 1, event |-> event, callback |-> callback]
     IN /\ subscriptions' = Append(subscriptions, subscription)
        /\ activeListeners' = [activeListeners EXCEPT ![event] = subscription.id]
  /\ subsCreated' = subsCreated + 1
  /\ UNCHANGED removedAllAt
  /\ RelayStep("addListener")

RemoveListener(event) ==
  /\ IF activeListeners[event] # NoSubscription
     THEN /\ subscriptions' = WithoutSubs({activeListeners[event]})
          /\ activeListeners' = [activeListeners EXCEPT ![event] = NoSubscription]
     ELSE UNCHANGED <<subscriptions, activeListeners>>
  /\ UNCHANGED <<subsCreated, removedAllAt>>
  /\ RelayStep("removeListener")

RemoveAllListeners ==
  /\ subscriptions' = WithoutSubs({activeListeners[e] : e \in DOMAIN activeListeners})
  /\ activeListeners' = [e \in DOMAIN activeListeners |-> NoSubscription]
  /\ removedAllAt' = subsCreated
  /\ UNCHANGED subsCreated
  /\ RelayStep("removeAllListeners")

\* one sendEvent(eventName, eventData) of the native module, made by whichever of
\* its handlers sends that event
SendEvent(eventName) ==
  /\ lastOp' = Op("sendEvent", NoPromise, 0, "")
  /\ engineCalls' = <<>>
  /\ prompted' = <<>>
  /\ answer' = NoAnswer
  /\ SendEvents(<<eventName>>)
  /\ UNCHANGED <<moduleVars, promises, platformVars, engineVars, relayVars, hostVars>>

\* --------------------------------------- JS wrapper: requestEssentialPermissions
\* Object.values(statuses): the values of the keys the map holds
StatusValues(m) == {m[p] : p \in {q \in DOMAIN m : m[q] # "-"}}

\* the reduction with some() in the place of every()
ReduceStatusesSome(statusValues) ==
  IF \E status \in statusValues : status = "granted" THEN "granted"
  ELSE IF \E status \in statusValues : status = "denied" THEN "denied"
  ELSE IF \E status \in statusValues : status = "unavailable" THEN "unavailable"
  ELSE IF \E status \in statusValues : status = "blocked" THEN "blocked"
  ELSE "partial"

\* the if/else chain over statusValues.every(...)
ReduceStatuses(statusValues) ==
  IF \A status \in statusValues : status = "granted" THEN "granted"
  ELSE IF \A status \in statusValues : status = "denied" THEN "denied"
  ELSE IF \A status \in statusValues : status = "unavailable" THEN "unavailable"
  ELSE IF \A status \in statusValues : status = "blocked" THEN "blocked"
  ELSE "partial"

\* the wrapper's code after the await, given the map the native call returned
ReduceEssentialStatuses ==
  /\ overall = "-"
  /\ overall' = ReduceStatuses(StatusValues(statuses))
  /\ UNCHANGED <<moduleVars, promises, callBudget, hostNumbers, statuses, platformVars,
                 engineVars, relayVars, stepVars>>

\* ------------------------------------------------ JS wrapper: initVerification
\* isValidE164 without the leading plus sign in its pattern
IsValidE164NoPlus(phoneNumber) ==
  /\ Len(phoneNumber) >= 2
  /\ Len(phoneNumber) <= 15
  /\ phoneNumber[1] \in Digits \ {"0"}
  /\ \A i \in 2..Len(phoneNumber) : phoneNumber[i] \in Digits

\* isValidE164 with {1,} for {1,14}: no upper limit on the digits
IsValidE164NoLimit(phoneNumber) ==
  /\ Len(phoneNumber) >= 3
  /\ phoneNumber[1] = "+"
  /\ phoneNumber[2] \in Digits \ {"0"}
  /\ \A i \in 3..Len(phoneNumber) : phoneNumber[i] \in Digits

\* /^\+[1-9]\d{1,14}$/.test(phoneNumber)
IsValidE164(phoneNumber) ==
  /\ Len(phoneNumber) >= 3
  /\ Len(phoneNumber) <= 16
  /\ phoneNumber[1] = "+"
  /\ phoneNumber[2] \in Digits \ {"0"}
  /\ \A i \in 3..Len(phoneNumber) : phoneNumber[i] \in Digits

\* the default parameter appSecret = '': an argument left out arrives as ''
DefaultSecret(appSecret) == IF appSecret.isNull THEN Secret(<<>>) ELSE appSecret

\* The wrapper's initVerification; appSecret is NullSecret when the host leaves the
\* argument out.  The throw ends the async function: its promise is rejected with
\* the Error and nothing else has run.
JsInitVerification(phoneNumber, appSecret) ==
  IF ~IsValidE164(phoneNumber)
  THEN /\ lastOp' = [Op("initVerification", NoPromise, 0, "")
                       EXCEPT !.threw = TRUE, !.phoneNumber = phoneNumber]
       /\ engineCalls' = <<>>
       /\ prompted' = <<>>
       /\ answer' = NoAnswer
       /\ SendEvents(<<>>)
       /\ UNCHANGED <<moduleVars, promises, platformVars, engineVars, relayVars, hostVars>>
  ELSE InitVerification(phoneNumber, DefaultSecret(appSecret))

\* ------------------------------------------- JS wrapper: what the host is given
\* the Error a rejected native promise hands to the wrapper's catch
ErrVal(code) == [tag |-> "error", str |-> code, map |-> NoMap]

Pending == [state |-> "pending", val |-> StrVal("")]

Fulfilled(v) == [state |-> "fulfilled", val |-> v]

\* The promise the wrapper function returned for the native call p.  The bridge
\* settles the JS promise of a native call by the first resolve or reject made on
\* it; the wrapper awaits it inside try/catch and returns from either branch.
WrapperResult(p) ==
  LET settles == promises[p].settles
      first == settles[1]
      kind == promises[p].kind
  IN IF settles = <<>> THEN Pending
     ELSE IF kind = "requestEssentialPermissions"
     THEN IF first.how = "resolve"
          THEN Fulfilled(StrVal(ReduceStatuses(StatusValues(first.val.map))))
          ELSE Fulfilled(StrVal("error"))
     ELSE IF kind \in SinglePermissionOps
     THEN IF first.how = "resolve" THEN Fulfilled(first.val)
          ELSE Fulfilled(StrVal("error"))
     ELSE IF first.how = "resolve" THEN Fulfilled(first.val)
          ELSE Fulfilled(ErrVal(first.val.str))

\* ------------------------------------------------------------ initial states
InitModule ==
  /\ permissionPromises = [c \in RequestCodes |-> NoPromise]
  /\ verification = NoSession
  /\ verificationPromise = NoPromise
  /\ callbacks = [c \in RequestCodes |-> NoPromise]
  /\ promises = <<>>
  /\ prompts = <<>>
  /\ engine = <<>>
  /\ signals = <<>>
  /\ activeListeners = [e \in ListenerEvents |-> NoSubscription]
  /\ subscriptions = <<>>
  /\ subsCreated = 0
  /\ removedAllAt = 0
  /\ lastOp = Op("init", NoPromise, 0, "")
  /\ emitted = <<>>
  /\ engineCalls = <<>>
  /\ prompted = <<>>
  /\ answer = NoAnswer
  /\ invoked = <<>>

\* a number in E.164 format
HostNumber == <<"+", "1", "0">>

\* the host verifies one number, in E.164 format, and no requestEssentialPermissions
\* of the wrapper is past its await
InitWrapper ==
  /\ hostNumbers = {HostNumber}
  /\ statuses = NoMap
  /\ overall = "-"

\* a device on which every permission exists and none is granted yet
InitFreshDevice ==
  /\ currentActivity = TRUE
  /\ known = [p \in Permissions |-> TRUE]
  /\ granted = [p \in Permissions |-> FALSE]
  /\ callLog = <<>>

\* ------------------------------------------- the verification session alone
InitVerif == InitModule /\ InitFreshDevice /\ InitWrapper /\ callBudget = MaxVerifCalls

\* the host of this session leaves the secret out: the wrapper passes ''
HostSecret == Secret(<<>>)

NextVerif ==
  \/ \E phoneNumber \in hostNumbers : InitVerification(phoneNumber, HostSecret)
  \/ StopVerification
  \/ \E methodType \in MethodTypes : VerifyCode(methodType)
  \/ \E inst \in 1..Len(engine), sig \in Signals : EngineRaise(inst, sig)
  \/ OnInitializationFailed
  \/ OnInitiated
  \/ OnVerified
  \/ OnVerificationFailed
  \/ OnVerificationEvent

SpecVerif == InitVerif /\ [][NextVerif]_vars

\* ------------------------------------------------------ the permissions alone
\* any device: each permission exists or not, and only one that exists is granted
InitPerm ==
  /\ InitModule
  /\ InitWrapper
  /\ callBudget = MaxPermCalls
  /\ currentActivity = TRUE
  /\ known \in [Permissions -> BOOLEAN]
  /\ granted \in [Permissions -> BOOLEAN]
  /\ \A p \in Permissions : granted[p] => known[p]
  /\ callLog = <<>>

NextPerm ==
  \/ RequestInternetPermission
  \/ RequestReadCallLogPermission
  \/ RequestChangeNetworkStatePermission
  \/ RequestAccessNetworkStatePermission
  \/ RequestReadPhoneStatePermission
  \/ RequestEssentialPermissions
  \/ \E i \in 1..Len(prompts) :
       \E permissions \in {prompts[i].permissions, <<>>} :
         \E accepted \in SUBSET SeqRange(permissions) :
           \E rationale \in SUBSET (SeqRange(permissions) \ accepted) :
             OnRequestPermissionsResult(i, permissions, accepted, rationale)

SpecPerm == InitPerm /\ [][NextPerm]_vars

\* ------------------------------------------------------ the event relay alone
InitRelay == InitModule /\ InitFreshDevice /\ InitWrapper /\ callBudget = 0

NextRelay ==
  \/ \E event \in ListenerEvents, callback \in 1..NumCallbacks : AddListener(event, callback)
  \/ \E event \in ListenerEvents : RemoveListener(event)
  \/ RemoveAllListeners
  \/ \E eventName \in EventNames : SendEvent(eventName)

SpecRelay == InitRelay /\ [][NextRelay]_vars

\* --------------------------------- initVerification through the wrapper alone
\* the host uses a number in E.164 format and one other string, any
InitJsInit ==
  /\ InitModule
  /\ InitFreshDevice
  /\ callBudget = MaxInitCalls
  /\ hostNumbers \in {{HostNumber, phoneNumber} : phoneNumber \in PhoneNumbers}
  /\ statuses = NoMap
  /\ overall = "-"

NextJsInit ==
  \/ \E phoneNumber \in hostNumbers, appSecret \in AppSecrets :
       JsInitVerification(phoneNumber, appSecret)
  \/ \E inst \in 1..Len(engine), sig \in Signals : EngineRaise(inst, sig)
  \/ OnInitializationFailed
  \/ OnInitiated
  \/ OnVerified
  \/ OnVerificationFailed
  \/ OnVerificationEvent

SpecJsInit == InitJsInit /\ [][NextJsInit]_vars

\* ------------------------------------ the native calls that can be rejected
\* a device on which READ_CALL_LOG is granted or not
InitCalls ==
  /\ InitModule
  /\ InitWrapper
  /\ callBudget = MaxCalls
  /\ currentActivity = TRUE
  /\ known = [p \in Permissions |-> TRUE]
  /\ granted \in [Permissions -> BOOLEAN]
  /\ \A p \in Permissions \ {READ_CALL_LOG} : ~granted[p]
  /\ callLog = <<[date |-> 1, number |-> "n1"]>>

NextCalls ==
  \/ \E phoneNumber \in hostNumbers, appSecret \in AppSecrets :
       InitVerification(phoneNumber, appSecret)
  \/ StopVerification
  \/ \E methodType \in MethodTypes : VerifyCode(methodType)
  \/ \E cursor \in Cursors : GetLastCallNumber(cursor)
  \/ \E inst \in 1..Len(engine), sig \in Signals : EngineRaise(inst, sig)
  \/ OnInitializationFailed
  \/ OnInitiated
  \/ OnVerified
  \/ OnVerificationFailed
  \/ OnVerificationEvent

SpecCalls == InitCalls /\ [][NextCalls]_vars

\* ------------------- the verification, the call log and two permissions
\* the entry points that take a promise, with two of the request codes
InitNative == InitModule /\ InitFreshDevice /\ InitWrapper /\ callBudget = MaxCalls

NextNative ==
  \/ \E phoneNumber \in hostNumbers : InitVerification(phoneNumber, HostSecret)
  \/ StopVerification
  \/ \E methodType \in MethodTypes : VerifyCode(methodType)
  \/ \E cursor \in Cursors : GetLastCallNumber(cursor)
  \/ RequestReadCallLogPermission
  \/ RequestReadPhoneStatePermission
  \/ \E i \in 1..Len(prompts) :
       \E permissions \in {prompts[i].permissions, <<>>} :
         \E accepted \in SUBSET SeqRange(permissions) :
           \E rationale \in SUBSET (SeqRange(permissions) \ accepted) :
             OnRequestPermissionsResult(i, permissions, accepted, rationale)
  \/ \E inst \in 1..Len(engine), sig \in Signals : EngineRaise(inst, sig)
  \/ OnInitializationFailed
  \/ OnInitiated
  \/ OnVerified
  \/ OnVerificationFailed
  \/ OnVerificationEvent

SpecNative == InitNative /\ [][NextNative]_vars

\* ----------------------------------- the engine's signals and the listeners
\* the event the host of this session listens to
HostEvents == {"verificationInitiated"}

InitEvents == InitModule /\ InitFreshDevice /\ InitWrapper /\ callBudget = MaxInitCalls

NextEvents ==
  \/ \E phoneNumber \in hostNumbers : InitVerification(phoneNumber, HostSecret)
  \/ \E event \in HostEvents, callback \in 1..NumCallbacks : AddListener(event, callback)
  \/ \E inst \in 1..Len(engine), sig \in Signals : EngineRaise(inst, sig)
  \/ OnInitializationFailed
  \/ OnInitiated
  \/ OnVerified
  \/ OnVerificationFailed
  \/ OnVerificationEvent

SpecEvents == InitEvents /\ [][NextEvents]_vars

\* ------------------------------------------- the wrapper's number check alone
\* the strings of PhoneNumbers, each followed by a run of digits
LongNumbers ==
  {head \o [i \in 1..n |-> "1"] : head \in PhoneNumbers, n \in 0..MaxDigitRun}

\* the host calls the wrapper's initVerification with one string, any
InitE164 ==
  /\ InitModule
  /\ InitFreshDevice
  /\ callBudget = MaxInitCalls
  /\ hostNumbers \in {{phoneNumber} : phoneNumber \in LongNumbers}
  /\ statuses = NoMap
  /\ overall = "-"

NextE164 ==
  \E phoneNumber \in hostNumbers, appSecret \in AppSecrets :
    JsInitVerification(phoneNumber, appSecret)

SpecE164 == InitE164 /\ [][NextE164]_vars

\* ----------------------------------------------- the call-log lookup alone
\* any call log, on a device on which READ_CALL_LOG is granted or not
InitCallLog ==
  /\ InitModule
  /\ InitWrapper
  /\ callBudget = MaxLogCalls
  /\ currentActivity = TRUE
  /\ known = [p \in Permissions |-> TRUE]
  /\ granted \in [Permissions -> BOOLEAN]
  /\ \A p \in Permissions \ {READ_CALL_LOG} : ~granted[p]
  /\ callLog \in CallLogs

NextCallLog == \E cursor \in Cursors : GetLastCallNumber(cursor)

SpecCallLog == InitCallLog /\ [][NextCallLog]_vars

\* ------------------------------------------- the wrapper's reduction alone
\* the statuses a native status map holds
Statuses == {GRANTED, DENIED, BLOCKED, UNAVAILABLE}

\* the wrapper is handed any map of the four essential permissions
InitReduce ==
  /\ InitModule
  /\ InitFreshDevice
  /\ callBudget = 0
  /\ hostNumbers = {HostNumber}
  /\ statuses \in [Permissions -> Statuses \cup {"-"}]
  /\ \A p \in Permissions : statuses[p] = "-" <=> ~InSeq(p, EssentialPermissions)
  /\ overall = "-"

NextReduce == ReduceEssentialStatuses

SpecReduce == InitReduce /\ [][NextReduce]_vars

\* ====================================================================== claims
PromiseIds == 1..Len(promises)

Resolved(v) == <<[how |-> "resolve", val |-> v]>>

Rejected(code) == <<[how |-> "reject", val |-> StrVal(code)]>>

\* C1: every promise handed to the native module is settled at most once: no promise
\* has resolve or reject called on it a second time.
C1_SettledOnce == \A p \in PromiseIds : Len(promises[p].settles) <= 1

\* C2: a verifyCode call with a recognized methodType made while no session exists
\* rejects its promise with NO_VERIFICATION, emits verificationNotInitialized exactly
\* once, makes no engine call, and leaves the session, the pending verification
\* handle, the engine and every other promise as they were.
C2_VerifyCodeWithoutSession ==
  [][ ( /\ lastOp'.op = "verifyCode"
        /\ lastOp'.methodType \in {"FLASHCALL", "SMS"}
        /\ verification = NoSession )
      => ( /\ promises'[lastOp'.promise].settles = Rejected("NO_VERIFICATION")
           /\ emitted' = <<"verificationNotInitialized">>
           /\ engineCalls' = <<>>
           /\ verification' = verification
           /\ verificationPromise' = verificationPromise
           /\ engine' = engine
           /\ \A q \in PromiseIds : promises'[q] = promises[q] ) ]_vars

\* C2 witness: such a call has just run, after a session had existed and been stopped
C2_Witness ==
  /\ lastOp.op = "verifyCode"
  /\ lastOp.methodType \in {"FLASHCALL", "SMS"}
  /\ verification = NoSession
  /\ Len(engine) > 0
  /\ emitted = <<"verificationNotInitialized">>

\* C3: verifyCode is forwarded to the engine only while the session is Active
\* (initiated, and not yet verified, failed or stopped); a recognized verifyCode in
\* any other session state is not forwarded and is rejected with NO_VERIFICATION.
C3_VerifyOnlyWhenActive ==
  ( /\ lastOp.op = "verifyCode"
    /\ lastOp.methodType \in {"FLASHCALL", "SMS"}
    /\ (verification = NoSession \/ engine[verification].phase # "active") )
  => /\ engineCalls = <<>>
     /\ promises[lastOp.promise].settles = Rejected("NO_VERIFICATION")

\* the stopVerification calls p < q with no initVerification call between them
ConsecutiveStops ==
  { pq \in PromiseIds \X PromiseIds :
      /\ pq[1] < pq[2]
      /\ promises[pq[1]].kind = "stopVerification"
      /\ promises[pq[2]].kind = "stopVerification"
      /\ \A r \in (pq[1] + 1)..(pq[2] - 1) : promises[r].kind # "initVerification" }

\* C4: of two stopVerification calls with no initVerification between them, the
\* first made while a session exists: the first clears the session and resolves with
\* "Verification stopped", the second resolves with "No active verification to
\* stop", and the two messages differ.
C4_StopTwice ==
  /\ lastOp.op = "stopVerification" => verification = NoSession
  /\ \A pq \in ConsecutiveStops :
       promises[pq[1]].session # NoSession
       => /\ promises[pq[1]].settles = Resolved(StrVal("Verification stopped"))
          /\ promises[pq[2]].settles = Resolved(StrVal("No active verification to stop"))
          /\ promises[pq[1]].settles[1].val # promises[pq[2]].settles[1].val

\* C4 witness: the second of two such calls has just run
C4_Witness ==
  \E pq \in ConsecutiveStops :
    /\ promises[pq[1]].session # NoSession
    /\ lastOp.op = "stopVerification"
    /\ lastOp.promise = pq[2]

\* the verification calls not settled yet
Outstanding ==
  { p \in PromiseIds :
      /\ promises[p].kind \in {"initVerification", "verifyCode"}
      /\ promises[p].settles = <<>> }

\* C5: stopVerification with a session tells the engine to stop, clears the session
\* and resolves its own promise; exactly when a verification call is outstanding
\* (not settled yet) that call is resolved with the explicit-stop message and one
\* verificationStopped event is emitted; otherwise no event is emitted and no other
\* promise is touched.
C5_StopResolvesOutstanding ==
  [][ ( lastOp'.op = "stopVerification" /\ verification # NoSession )
      => ( /\ engineCalls' = <<[call |-> "stop", inst |-> verification]>>
           /\ verification' = NoSession
           /\ promises'[lastOp'.promise].settles = Resolved(StrVal("Verification stopped"))
           /\ IF Outstanding # {}
              THEN /\ emitted' = <<"verificationStopped">>
                   /\ \E p \in Outstanding :
                        promises'[p].settles =
                          Resolved(StrVal("Verification stopped due to explicit stop call"))
              ELSE /\ emitted' = <<>>
                   /\ \A q \in PromiseIds : promises'[q] = promises[q] ) ]_vars

\* C6: once removeAllListeners has returned, no callback registered by an addListener
\* before it is invoked by a later event.
C6_NoneInvokedAfterRemoveAll ==
  \A i \in 1..Len(invoked) : invoked[i].id > removedAllAt

\* the callbacks that an emission of ev would invoke
LiveCallbacks(ev) == {s.callback : s \in SeqRange(SubsOf(ev))}

\* C7: at most one callback per event name is live: addListener(name, cb2) while cb1
\* is registered for name replaces cb1.
C7_OneLiveCallbackPerEvent ==
  \A ev \in EventNames : Cardinality(LiveCallbacks(ev)) <= 1

\* C8: a single-permission request made with a foreground activity for a permission
\* already granted resolves 'granted' within the call and issues no prompt.
C8_GrantedResolvesAtOnce ==
  ( /\ lastOp.op \in SinglePermissionOps
    /\ currentActivity
    /\ granted[PermissionOfCode(lastOp.code)] )
  => /\ promises[lastOp.promise].settles = Resolved(StrVal(GRANTED))
     /\ prompted = <<>>

\* C8 witness: such a request has just run
C8_Witness ==
  /\ lastOp.op \in SinglePermissionOps
  /\ currentActivity
  /\ granted[PermissionOfCode(lastOp.code)]
  /\ promises[lastOp.promise].settles # <<>>

\* C9: a single-permission request made with a foreground activity for a permission
\* the platform does not know resolves 'unavailable' within the call and issues no
\* prompt (a permission the platform does not know is never granted).
C9_UnknownResolvesUnavailable ==
  ( /\ lastOp.op \in SinglePermissionOps
    /\ currentActivity
    /\ ~known[PermissionOfCode(lastOp.code)] )
  => /\ promises[lastOp.promise].settles = Resolved(StrVal(UNAVAILABLE))
     /\ prompted = <<>>

\* C9 witness: such a request has just run
C9_Witness ==
  /\ lastOp.op \in SinglePermissionOps
  /\ currentActivity
  /\ ~known[PermissionOfCode(lastOp.code)]
  /\ promises[lastOp.promise].settles # <<>>

\* C10: when the platform answers the prompt of a single-permission request, the
\* call resolves with exactly one of the strings 'granted', 'denied', 'blocked':
\* 'granted' if accepted, else 'denied' if the user may be asked again, else
\* 'blocked'.
C10_AnswerResolvesStatusString ==
  ( /\ lastOp.op = "onRequestPermissionsResult"
    /\ lastOp.code # PERMISSION_REQUEST_CODE_ESSENTIAL
    /\ lastOp.promise # NoPromise
    /\ answer.permissions # <<>>
    /\ ~lastOp.threw )
  => promises[lastOp.promise].settles =
       Resolved(StrVal(AnsweredStatus(PermissionOfCode(lastOp.code), answer.accepted,
                                      answer.rationale)))

\* the statuses of the four essential permissions in the map the wrapper was handed
FourStatuses == {statuses[EssentialPermissions[i]] : i \in 1..Len(EssentialPermissions)}

\* C12: the wrapper's reduction of a map of four statuses is 'granted' when all four
\* are granted, 'denied' when all are denied, 'unavailable' when all are unavailable,
\* 'blocked' when all are blocked, and 'partial' for every other combination.
C12_ReductionOfFour ==
  overall # "-"
  => /\ \A s \in Statuses : FourStatuses = {s} => overall = s
     /\ Cardinality(FourStatuses) > 1 => overall = "partial"

\* C12 witness: [granted, denied, granted, granted] has been reduced
C12_Witness ==
  /\ overall # "-"
  /\ statuses[READ_PHONE_STATE] = GRANTED
  /\ statuses[ACCESS_NETWORK_STATE] = DENIED
  /\ statuses[READ_CALL_LOG] = GRANTED
  /\ statuses[INTERNET] = GRANTED

\* the outcome of one essential permission once the handler that ran last is done:
\* unavailable if the platform does not know it, else what the prompt's answer said
\* of it, else granted if it is granted, else denied
EssentialOutcome(p) ==
  IF ~known[p] THEN UNAVAILABLE
  ELSE IF p \in SeqRange(answer.permissions)
  THEN AnsweredStatus(p, answer.accepted, answer.rationale)
  ELSE IF granted[p] THEN GRANTED
  ELSE DENIED

FourOutcomes == {EssentialOutcome(EssentialPermissions[i]) : i \in 1..Len(EssentialPermissions)}

\* C11: when requestEssentialPermissions is resolved, at once or by the answer to
\* its prompt, the wrapper returns the reduction of the four per-permission
\* outcomes: the common status if the four agree, 'partial' otherwise (a permission
\* granted before the prompt counts as granted).
C11_EssentialEndToEnd ==
  ( /\ lastOp.op \in {"requestEssentialPermissions", "onRequestPermissionsResult"}
    /\ lastOp.code = PERMISSION_REQUEST_CODE_ESSENTIAL
    /\ lastOp.promise # NoPromise
    /\ currentActivity
    /\ Len(promises[lastOp.promise].settles) = 1
    /\ promises[lastOp.promise].settles[1].how = "resolve" )
  => /\ \A s \in Statuses :
          FourOutcomes = {s} => WrapperResult(lastOp.promise) = Fulfilled(StrVal(s))
     /\ Cardinality(FourOutcomes) > 1
          => WrapperResult(lastOp.promise) = Fulfilled(StrVal("partial"))

\* the essential permissions not granted / known to the platform and not granted
EssentialNotGranted ==
  {p \in SeqRange(EssentialPermissions) : ~granted[p]}

EssentialToAsk ==
  {p \in SeqRange(EssentialPermissions) : known[p] /\ ~granted[p]}

\* the requestPermissions call a requestEssentialPermissions step made asks for
\* exactly the set ask, each once; with ask empty it made none and resolved
PromptsExactly(ask) ==
  IF ask # {}
  THEN /\ Len(prompted) = 1
       /\ prompted[1].code = PERMISSION_REQUEST_CODE_ESSENTIAL
       /\ SeqRange(prompted[1].permissions) = ask
       /\ Len(prompted[1].permissions) = Cardinality(ask)
       /\ promises[lastOp.promise].settles = <<>>
  ELSE /\ prompted = <<>>
       /\ Len(promises[lastOp.promise].settles) = 1
       /\ promises[lastOp.promise].settles[1].how = "resolve"

\* C13 as stated: a requestEssentialPermissions call made with a foreground activity
\* issues at most one prompt, holding exactly the essential permissions that are not
\* already granted; when there is none it issues no prompt and resolves at once.
C13_PromptsNotGranted ==
  (lastOp.op = "requestEssentialPermissions" /\ currentActivity)
  => PromptsExactly(EssentialNotGranted)

\* C13, amended: a requestEssentialPermissions call made with a foreground activity
\* issues at most one prompt, holding exactly the essential permissions that the
\* platform knows and that are not already granted; when there is none it issues no
\* prompt and resolves at once.
C13_PromptsKnownNotGranted ==
  (lastOp.op = "requestEssentialPermissions" /\ currentActivity)
  => PromptsExactly(EssentialToAsk)

\* C13 witness: such a call has just prompted for a proper part of the four, one of
\* the others being granted already
C13_Witness ==
  /\ lastOp.op = "requestEssentialPermissions"
  /\ currentActivity
  /\ prompted # <<>>
  /\ \E p \in SeqRange(EssentialPermissions) : granted[p]
  /\ Cardinality(EssentialToAsk) = 2

\* the six permission entry points
PermissionOps == SinglePermissionOps \cup {"requestEssentialPermissions"}

\* C14: a permission request (any of the five single ones, or the essential one) made
\* while no foreground activity exists is rejected within the call with
\* E_ACTIVITY_DOES_NOT_EXIST, issues no prompt, and leaves the registry of pending
\* permission promises as it was.
C14_NoActivityRejectsAtOnce ==
  [][ (lastOp'.op \in PermissionOps /\ ~currentActivity')
      => ( /\ promises'[lastOp'.promise].settles = Rejected("E_ACTIVITY_DOES_NOT_EXIST")
           /\ prompted' = <<>>
           /\ prompts' = prompts
           /\ permissionPromises' = permissionPromises
           /\ callbacks' = callbacks ) ]_vars

\* C14 witness: a request for a permission that would have been prompted for has
\* just run without an activity
C14_Witness ==
  /\ lastOp.op \in PermissionOps
  /\ ~currentActivity
  /\ promises[lastOp.promise].settles # <<>>
  /\ \A p \in Permissions : known[p] /\ ~granted[p]

\* E.164: a plus sign, then at most fifteen digits of which the first is not 0
InE164Format(phoneNumber) ==
  /\ Len(phoneNumber) >= 2
  /\ Len(phoneNumber) <= 16
  /\ phoneNumber[1] = "+"
  /\ phoneNumber[2] \in {"1", "2", "3", "4", "5", "6", "7", "8", "9"}
  /\ \A i \in 3..Len(phoneNumber) :
       phoneNumber[i] \in {"0", "1", "2", "3", "4", "5", "6", "7", "8", "9"}

\* C15: the wrapper's initVerification with a phoneNumber that is not in E.164
\* format is rejected by the wrapper's own throw: the native initVerification is not
\* invoked (no promise is handed to the module, no engine call is made, no event is
\* sent), and the session, the pending verification promise and the listener map are
\* as before.
C15_BadNumberRejectedLocally ==
  [][ (lastOp'.op = "initVerification" /\ ~InE164Format(lastOp'.phoneNumber))
      => ( /\ lastOp'.threw
           /\ lastOp'.promise = NoPromise
           /\ promises' = promises
           /\ engineCalls' = <<>>
           /\ emitted' = <<>>
           /\ engine' = engine
           /\ verification' = verification
           /\ verificationPromise' = verificationPromise
           /\ activeListeners' = activeListeners
           /\ subscriptions' = subscriptions ) ]_vars

\* C15 witness: '10' with the plus sign missing has just been refused, while a
\* session exists
C15_Witness ==
  /\ lastOp.op = "initVerification"
  /\ lastOp.phoneNumber = <<"1", "0">>
  /\ lastOp.threw
  /\ verification # NoSession

\* C16: initVerification builds the app-key-only credential exactly when appSecret is
\* null or the empty string, and the key+secret credential for every other appSecret.
C16_CredentialBySecret ==
  (lastOp.op = "initVerification" /\ ~lastOp.threw)
  => /\ engineCalls # <<>>
     /\ engineCalls[1].call =
          IF lastOp.appSecret = NullSecret \/ lastOp.appSecret = Secret(<<>>)
          THEN "AppKeyAuthorizationMethod"
          ELSE "BasicAuthorizationMethod"

\* C16 witness: initVerification has just run with the empty string for appSecret
C16_Witness ==
  /\ lastOp.op = "initVerification"
  /\ ~lastOp.threw
  /\ lastOp.appSecret = Secret(<<>>)
  /\ engineCalls # <<>>

\* C17: a verifyCode call whose methodType is neither 'FLASHCALL' nor 'SMS' rejects its
\* promise with INVALID_METHOD_TYPE whether or not a session exists; it makes no
\* engine call, sends no event, and leaves the session, the pending verification
\* promise, the engine and every other promise as they were.
C17_InvalidMethodTypeRejected ==
  [][ (lastOp'.op = "verifyCode" /\ lastOp'.methodType \notin {"FLASHCALL", "SMS"})
      => ( /\ promises'[lastOp'.promise].settles = Rejected("INVALID_METHOD_TYPE")
           /\ engineCalls' = <<>>
           /\ emitted' = <<>>
           /\ verification' = verification
           /\ verificationPromise' = verificationPromise
           /\ engine' = engine
           /\ \A q \in PromiseIds : promises'[q] = promises[q] ) ]_vars

\* C17 witness: such a call has just run while a session with a pending promise exists
C17_Witness ==
  /\ lastOp.op = "verifyCode"
  /\ lastOp.methodType \notin {"FLASHCALL", "SMS"}
  /\ verification # NoSession
  /\ verificationPromise # NoPromise
  /\ promises[lastOp.promise].settles # <<>>

\* C18: when the native call behind initVerification, verifyCode or
\* getLastCallNumberFromCallLog is rejected, the promise the wrapper returned to the
\* host is rejected too, not fulfilled.
C18_RejectionReachesHost ==
  \A p \in PromiseIds :
    ( /\ promises[p].kind \in {"initVerification", "verifyCode", "getLastCallNumber"}
      /\ promises[p].settles # <<>>
      /\ promises[p].settles[1].how = "reject" )
    => WrapperResult(p).state = "rejected"

\* the initVerification call that built engine instance inst: the inst-th such call
InitCallOf(inst) ==
  CHOOSE p \in PromiseIds :
    /\ promises[p].kind = "initVerification"
    /\ Cardinality({q \in 1..p : promises[q].kind = "initVerification"}) = inst

\* C19: when the listener callback of an engine instance's "initiated" signal runs, the
\* promise of the initVerification call that built that instance is resolved with
\* "Verification initiated" and one verificationInitiated event is sent; when the
\* callback of its "initialization failed" signal runs, that promise is rejected with
\* INITIALIZATION_FAILED and one verificationFailed event is sent; no other promise is
\* touched, whatever calls were made between the initVerification and the signal.
C19_InitSignalSettlesItsCall ==
  [][ (lastOp'.op \in {"onInitiated", "onInitializationFailed"} /\ signals # <<>>)
      => LET p == InitCallOf(Head(signals).inst)
         IN /\ IF lastOp'.op = "onInitiated"
               THEN /\ promises'[p].settles = Resolved(StrVal("Verification initiated"))
                    /\ emitted' = <<"verificationInitiated">>
               ELSE /\ promises'[p].settles = Rejected("INITIALIZATION_FAILED")
                    /\ emitted' = <<"verificationFailed">>
            /\ \A q \in PromiseIds \ {p} : promises'[q] = promises[q] ]_vars

\* the listener callbacks that report the end of a verification
EndSignals == {"onVerified", "onVerificationFailed", "onInitializationFailed"}

\* C20: once the callback of onVerified, onVerificationFailed or onInitializationFailed
\* has run for the only session built so far, no session exists: a stopVerification
\* that comes next resolves with "No active verification to stop" and does not
\* call the engine's stop.
C20_SessionEndsWithVerification ==
  [][ ( /\ lastOp.op \in EndSignals
        /\ Len(engine) = 1
        /\ lastOp'.op = "stopVerification" )
      => ( /\ verification = NoSession
           /\ promises'[lastOp'.promise].settles =
                Resolved(StrVal("No active verification to stop"))
           /\ engineCalls' = <<>> ) ]_vars

\* the engine instances on which initiate() was called and that have neither been
\* stopped nor reported their end
Running ==
  {i \in 1..Len(engine) : ~engine[i].stopped /\ engine[i].phase \in {"initiating", "active"}}

\* C21: at most one session exists at a time: no step leaves two engine instances
\* running, and the listener callback of an instance that a later initVerification
\* has replaced settles no promise and sends no event.
C21_OneSessionAtATime ==
  [][ /\ Cardinality(Running') <= 1
      /\ ( /\ lastOp'.op \in Signals
            /\ signals # <<>>
            /\ Head(signals).inst < Len(engine) )
         => (promises' = promises /\ emitted' = <<>>) ]_vars

\* what the engine answers to initiate() and to verify(), as the module hands it on
InitiateAnswers == {StrVal("Verification initiated"), StrVal("INITIALIZATION_FAILED")}

VerifyAnswers == {StrVal("Successfully verified"), StrVal("VERIFICATION_FAILED")}

\* C22: no resolution is misdelivered between verification calls: the value a
\* verifyCode call is given is never the engine's answer to an initVerification
\* call's initiate(), and the value an initVerification call is given is never the
\* outcome of a verification it did not start itself.
C22_NoMisdelivery ==
  \A p \in PromiseIds :
    promises[p].settles # <<>>
    => /\ promises[p].kind = "verifyCode"
            => promises[p].settles[1].val \notin InitiateAnswers
       /\ promises[p].kind = "initVerification"
            => promises[p].settles[1].val \notin VerifyAnswers

\* C23: while the module holds no pending verification promise, the callbacks
\* onVerified and onVerificationFailed settle no promise and send no event;
\* onVerificationEvent sends exactly one verificationEvent and settles nothing in
\* every state.
C23_CallbacksWithoutHandle ==
  [][ /\ ( lastOp'.op \in {"onVerified", "onVerificationFailed"}
            /\ verificationPromise = NoPromise )
         => (promises' = promises /\ emitted' = <<>>)
      /\ lastOp'.op = "onVerificationEvent"
         => (promises' = promises /\ emitted' = <<"verificationEvent">>) ]_vars

\* C23 witness: onVerified has just run after stopVerification cleared the promise
C23_Witness ==
  /\ lastOp.op = "onVerified"
  /\ verificationPromise = NoPromise
  /\ \E p \in PromiseIds : promises[p].kind = "stopVerification"

\* the records of the call log that carry its latest timestamp
LatestRecords ==
  {callLog[i] : i \in {k \in 1..Len(callLog) :
                          \A j \in 1..Len(callLog) : callLog[j].date <= callLog[k].date}}

\* C24: getLastCallNumber has four outcomes, decided by the call log: without the
\* permission it rejects PERMISSION_DENIED; with a null or empty query result it
\* rejects NO_CALL_LOG; with rows that have no number column it rejects
\* NO_CALL_NUMBER; otherwise it resolves with the number of a record carrying the
\* latest timestamp.  The three reasons are three different strings.
C24_CallLogOutcomes ==
  lastOp.op = "getLastCallNumber"
  => LET settles == promises[lastOp.promise].settles
     IN IF ~granted[READ_CALL_LOG] THEN settles = Rejected("PERMISSION_DENIED")
        ELSE IF lastOp.cursor.isNull \/ callLog = <<>> THEN settles = Rejected("NO_CALL_LOG")
        ELSE IF ~lastOp.cursor.hasNumberColumn THEN settles = Rejected("NO_CALL_NUMBER")
        ELSE \E r \in LatestRecords : settles = Resolved(StrVal(r.number))

\* C24 witness: the lookup has just resolved on a log of two records of which the
\* second stored is the later one and carries another number
C24_Witness ==
  /\ lastOp.op = "getLastCallNumber"
  /\ granted[READ_CALL_LOG]
  /\ Len(callLog) = 2
  /\ callLog[1].date < callLog[2].date
  /\ callLog[1].number # callLog[2].number
  /\ promises[lastOp.promise].settles = Resolved(StrVal(callLog[2].number))

\* the callbacks that an emission of ev invokes when the emitter holds subs
CallbacksFor(subs, ev) ==
  {subs[i].callback : i \in {k \in 1..Len(subs) : subs[k].event = ev}}

\* the callback of the subscription the wrapper's map holds for ev
RegisteredCallback(ev) ==
  (CHOOSE sub \in SeqRange(subscriptions) : sub.id = activeListeners[ev]).callback

\* C25: removeListener(name) takes the callback registered for name out, so that a
\* later event of that name does not invoke it; with nothing registered for name it
\* changes nothing; in both cases what is registered for every other event name,
\* and what an event of another name invokes, stays as it was.
C25_RemoveListenerFrame ==
  [][ lastOp'.op = "removeListener"
      => \E name \in ListenerEvents :
           /\ \A ev \in ListenerEvents \ {name} :
                /\ activeListeners'[ev] = activeListeners[ev]
                /\ CallbacksFor(subscriptions', ev) = CallbacksFor(subscriptions, ev)
           /\ IF activeListeners[name] = NoSubscription
              THEN /\ activeListeners' = activeListeners
                   /\ subscriptions' = subscriptions
              ELSE /\ activeListeners'[name] = NoSubscription
                   /\ RegisteredCallback(name) \notin CallbacksFor(subscriptions', name) ]_vars

\* a '+', one digit 1-9, then between 1 and 14 further digits
PlusAndTwoToFifteenDigits(phoneNumber) ==
  /\ \E more \in 1..14 : Len(phoneNumber) = 2 + more
  /\ phoneNumber[1] = "+"
  /\ phoneNumber[2] \in {"1", "2", "3", "4", "5", "6", "7", "8", "9"}
  /\ \A i \in 3..Len(phoneNumber) :
       phoneNumber[i] \in {"0", "1", "2", "3", "4", "5", "6", "7", "8", "9"}

\* C27: the wrapper's phone-number check accepts exactly the strings made of a
\* leading '+', one digit 1-9 and between 1 and 14 further digits: initVerification
\* goes on to the native call for these and throws for every other string.
C27_AcceptsExactlyE164 ==
  lastOp.op = "initVerification"
  => (~lastOp.threw <=> PlusAndTwoToFifteenDigits(lastOp.phoneNumber))

\* C27 witness: a string of '+' and fifteen digits has just been accepted
C27_Witness ==
  /\ lastOp.op = "initVerification"
  /\ Len(lastOp.phoneNumber) = 16
  /\ ~lastOp.threw
  /\ lastOp.promise # NoPromise

\* the promise handles the module holds in its two registries
HeldHandles ==
  ({permissionPromises[c] : c \in RequestCodes} \cup {verificationPromise})
    \ {NoPromise}

\* C28: a pending operation is destroyed the instant it is settled: every handle
\* held in permissionPromises or in verificationPromise belongs to a call that
\* has been neither resolved nor rejected.
C28_HeldHandlesUnsettled ==
  \A p \in HeldHandles : promises[p].settles = <<>>

\* C29: every promise passed to a permission request, initVerification or
\* verifyCode is settled once the platform and the engine have answered, also when
\* a second request of the same kind came before the first answer.  The module
\* settles a promise only through its registry, so a promise that is settled
\* later is one that is settled already or is still held there: no promise is
\* pending and out of the registry.
C29_PendingIsHeld ==
  \A p \in PromiseIds : promises[p].settles = <<>> => p \in HeldHandles

\* the callbacks of the engine that settle the pending verification handle
VerificationSettlers ==
  {"onInitiated", "onInitializationFailed", "onVerified", "onVerificationFailed"}

\* C30: there is no timeout or cancellation: a promise that is pending is settled
\* only by the callback for its slot (onRequestPermissionsResult with the request
\* code it is stored under, or one of the engine callbacks for the verification
\* handle) or, for the verification handle, by stopVerification; no other step
\* settles it.
C30_OnlyItsCallbackSettles ==
  [][ \A q \in PromiseIds :
        (promises[q].settles = <<>> /\ promises'[q].settles # <<>>)
        => \/ /\ lastOp'.op \in VerificationSettlers \cup {"stopVerification"}
              /\ q = verificationPromise
           \/ /\ lastOp'.op = "onRequestPermissionsResult"
              /\ q = permissionPromises[lastOp'.code] ]_vars

\* C30 witness: another entry point has run and settled its own promise while the
\* verification handle was pending, and the handle is pending still
C30_Witness ==
  /\ lastOp.op \in {"getLastCallNumber"} \cup SinglePermissionOps
  /\ lastOp.promise # NoPromise
  /\ promises[lastOp.promise].settles # <<>>
  /\ verificationPromise \notin {NoPromise, lastOp.promise}
  /\ promises[verificationPromise].settles = <<>>

C31_InitSignalWithoutHandleDropped ==
  [][ ( /\ lastOp'.op \in {"onInitiated", "onInitializationFailed"}
        /\ verificationPromise = NoPromise )
      => (promises' = promises /\ emitted' = <<>>) ]_vars

\* the verifyCode calls that reached verification?.verify(...) of instance inst
ForwardedVerifyCalls(inst) ==
  {q \in PromiseIds :
     /\ promises[q].kind = "verifyCode"
     /\ promises[q].session = inst
     /\ promises[q].session # NoSession
     /\ promises[q].settles # Rejected("INVALID_METHOD_TYPE")}

\* the latest of them
LastVerifyCall(inst) ==
  CHOOSE q \in ForwardedVerifyCalls(inst) : \A r \in ForwardedVerifyCalls(inst) : r <= q

\* C32: after a verifyCode call was forwarded to the engine, the engine's onVerified
\* resolves that call's promise with the success confirmation and emits exactly one
\* verificationSuccess, and onVerificationFailed rejects that call's promise with
\* VERIFICATION_FAILED and emits exactly one verificationFailed.
C32_VerifyAnswerSettlesVerifyCall ==
  [][ ( /\ lastOp'.op \in {"onVerified", "onVerificationFailed"}
        /\ signals # <<>>
        /\ ForwardedVerifyCalls(Head(signals).inst) # {} )
      => LET q == LastVerifyCall(Head(signals).inst)
         IN IF lastOp'.op = "onVerified"
            THEN /\ promises'[q].settles = Resolved(StrVal("Successfully verified"))
                 /\ emitted' = <<"verificationSuccess">>
            ELSE /\ promises'[q].settles = Rejected("VERIFICATION_FAILED")
                 /\ emitted' = <<"verificationFailed">> ]_vars

\* C33: a single-permission request issues a platform prompt if and only if a
\* foreground activity exists, the permission identifier is known and the
\* permission is not granted already; the prompt is for that permission under its
\* request code, and a call issues at most one.
C33_PromptIffNeeded ==
  lastOp.op \in SinglePermissionOps
  => LET permission == PermissionOfCode(lastOp.code)
     IN /\ Len(prompted) <= 1
        /\ prompted # <<>>
           <=> (currentActivity /\ known[permission] /\ ~granted[permission])
        /\ prompted # <<>>
           => prompted = <<[code |-> lastOp.code, permissions |-> <<permission>>]>>

\* C33 witness: a single-permission request has just issued its prompt
C33_Witness ==
  /\ lastOp.op \in SinglePermissionOps
  /\ Len(prompted) = 1
  /\ prompts # <<>>
  /\ promises[lastOp.promise].settles = <<>>

\* the value the platform's answer handled last was resolved with
AnswerResult == promises[lastOp.promise].settles[Len(promises[lastOp.promise].settles)].val

\* C34: 'denied' versus 'blocked' in a permission result comes, per permission,
\* from the may-re-prompt query made when the response arrives: a declined
\* permission is 'denied' exactly when the query answers true for it and 'blocked'
\* exactly when it answers false, whatever earlier calls stored or returned.
C34_DeniedOrBlockedFromQuery ==
  ( /\ lastOp.op = "onRequestPermissionsResult"
    /\ ~lastOp.threw
    /\ lastOp.promise # NoPromise )
  => /\ AnswerResult.tag = "map"
     /\ \A p \in Permissions :
          /\ AnswerResult.map[p] = DENIED
             <=> ( /\ p \in SeqRange(answer.permissions)
                   /\ p \notin answer.accepted
                   /\ p \in answer.rationale )
          /\ AnswerResult.map[p] = BLOCKED
             <=> ( /\ p \in SeqRange(answer.permissions)
                   /\ p \notin answer.accepted
                   /\ p \notin answer.rationale )

\* C34 witness: a second request has been answered 'denied' after an earlier
\* request was answered otherwise
C34_Witness ==
  /\ lastOp.op = "onRequestPermissionsResult"
  /\ ~lastOp.threw
  /\ lastOp.promise = 2
  /\ Len(promises[1].settles) = 1
  /\ promises[1].settles[1].val.tag = "map"
  /\ \E p \in Permissions : promises[1].settles[1].val.map[p] = BLOCKED
  /\ \E p \in Permissions : AnswerResult.map[p] = DENIED

\* C35: the session and the pending verification handle are set or cleared
\* together: verification is null exactly when verificationPromise is null.
C35_SessionAndHandleTogether ==
  verification = NoSession <=> verificationPromise = NoPromise

\* C35 witness: stopVerification has just cleared a session whose call was pending
C35_Witness ==
  /\ lastOp.op = "stopVerification"
  /\ verification = NoSession
  /\ verificationPromise = NoPromise
  /\ \E p \in PromiseIds :
       promises[p].settles =
         Resolved(StrVal("Verification stopped due to explicit stop call"))

\* C36: requestEssentialPermissions reports 'granted' only if the four essential
\* permissions are granted when the call resolves; an empty answer to the combined
\* prompt (cancelled or interrupted) does not give 'granted'.
C36_GrantedMeansAllGranted ==
  ( /\ lastOp.op \in {"requestEssentialPermissions", "onRequestPermissionsResult"}
    /\ lastOp.code = PERMISSION_REQUEST_CODE_ESSENTIAL
    /\ lastOp.promise # NoPromise
    /\ WrapperResult(lastOp.promise) = Fulfilled(StrVal(GRANTED)) )
  => \A p \in SeqRange(EssentialPermissions) : granted[p]

\* C37: onRequestPermissionsResult for a request code that has a stored promise
\* settles that promise before the entry is forgotten: once the handler has run and
\* taken the entry, the promise is settled, also when no foreground activity exists
\* any more and the response declines a permission.
C37_TakenEntryIsSettled ==
  (lastOp.op = "onRequestPermissionsResult" /\ lastOp.promise # NoPromise)
  => /\ permissionPromises[lastOp.code] = NoPromise
     /\ promises[lastOp.promise].settles # <<>>

\* C38: onRequestPermissionsResult(requestCode, ...) reads and removes only the
\* permissionPromises entry of that request code: the entries of the other request
\* codes, the session and the pending verification handle stay as they were, no
\* promise but the one taken is touched, and with no stored entry no promise is
\* settled.
C38_AnswerFrame ==
  [][ lastOp'.op = "onRequestPermissionsResult"
      => /\ permissionPromises'[lastOp'.code] = NoPromise
         /\ \A c \in RequestCodes \ {lastOp'.code} :
              permissionPromises'[c] = permissionPromises[c]
         /\ verification' = verification
         /\ verificationPromise' = verificationPromise
         /\ \A q \in PromiseIds \ {permissionPromises[lastOp'.code]} :
              promises'[q] = promises[q]
         /\ permissionPromises[lastOp'.code] = NoPromise => promises' = promises ]_vars

\* C38 witness: an answer has been handled while the entry of another request code
\* was stored, and that entry is there still
C38_Witness ==
  /\ lastOp.op = "onRequestPermissionsResult"
  /\ lastOp.promise # NoPromise
  /\ \E c \in RequestCodes \ {lastOp.code} :
       /\ permissionPromises[c] # NoPromise
       /\ promises[permissionPromises[c]].settles = <<>>

====
